---- MODULE Spec2Model ----
(***************************************************************************)
(* Weather ETL pipeline (dags/weather_pipeline.py) and its read-only       *)
(* dashboard (app.py).                                                     *)
(*                                                                         *)
(* Units: temperatures are hundredths of a degree (300.00 K = 30000),      *)
(* timestamps are whole seconds.  A column that is NULL / NaN is simply    *)
(* absent from the DOMAIN of the row.                                      *)
(***************************************************************************)
EXTENDS Integers, Sequences, FiniteSets, TLC

\* ------------------------------------------------------------------------
\* Bounds of the model
\* ------------------------------------------------------------------------
\* Number of (possibly overlapping) DAG runs.
NumInvocations == 2
\* Number of clock ticks the model lets pass.
MaxTicks == 2
\* Seconds that pass with one tick of the model clock.
TickSeconds == 60

Invocations == 1..NumInvocations

\* ------------------------------------------------------------------------
\* Generic helpers
\* ------------------------------------------------------------------------
Range(s) == {s[k] : k \in DOMAIN s}

Without(f, keys) == [k \in (DOMAIN f) \ keys |-> f[k]]

NONE == "none"

\* ------------------------------------------------------------------------
\* Raw observations: the flattened (pd.json_normalize) API document.
\* ------------------------------------------------------------------------
WeatherEntry == [id |-> 800, main |-> "Clear", description |-> "clear sky", icon |-> "01d"]

FullObs ==
       ("name" :> "Rio de Janeiro")
    @@ ("main.temp" :> 30000)
    @@ ("main.humidity" :> 80)
    @@ ("main.feels_like" :> 29900)
    @@ ("main.temp_min" :> 29800)
    @@ ("main.temp_max" :> 30200)
    @@ ("main.pressure" :> 1012)
    @@ ("wind.speed" :> 55)
    @@ ("wind.deg" :> 120)
    @@ ("coord.lat" :> -229)
    @@ ("coord.lon" :> -432)
    @@ ("weather" :> <<WeatherEntry>>)
    @@ ("sys.id" :> 1)
    @@ ("sys.country" :> "BR")
    @@ ("sys.sunrise" :> 1700000000)
    @@ ("sys.sunset" :> 1700040000)
    @@ ("timezone" :> -10800)

OtherCityObs == [FullObs EXCEPT !["name"] = "Niteroi", !["main.temp"] = 30100]
NoTempObs == Without(FullObs, {"main.temp"})
EmptyWeatherObs == [FullObs EXCEPT !["weather"] = <<>>]

\* Documents the weather API may answer with (requests.get(...).json()).
ApiResponses == {FullObs, OtherCityObs, NoTempObs, EmptyWeatherObs}

\* ------------------------------------------------------------------------
\* transform(): RawObservation -> one-row DataFrame, or an exception
\* ------------------------------------------------------------------------
\* 273.15 K in hundredths of a degree.
KelvinOffset == 27315

\* columns_to_keep, in dictionary order: <<source column, stored column>>.
columns_to_keep ==
    << <<"name", "city">>,
       <<"main.temp", "temperature_k">>,
       <<"main.humidity", "humidity">>,
       <<"main.feels_like", "thermal_sensation_k">>,
       <<"main.temp_min", "temp_min_k">>,
       <<"main.temp_max", "temp_max_k">>,
       <<"main.pressure", "pressure">>,
       <<"wind.speed", "wind_speed">>,
       <<"wind.deg", "wind_direction">>,
       <<"coord.lat", "latitude">>,
       <<"coord.lon", "longitude">>,
       <<"weather_id", "weather_id">>,
       <<"weather_main", "weather_main">>,
       <<"weather_description", "weather_description">>,
       <<"weather_icon", "weather_icon">>,
       <<"sys.id", "sys_id">>,
       <<"sys.country", "sys_country">>,
       <<"sys_sunrise", "sys_sunrise">>,
       <<"sys_sunset", "sys_sunset">>,
       <<"collection_timestamp", "collection_timestamp">> >>

\* The stored column names that contain the substring '_k', with the name
\* col.replace('_k', '_c') gives for each.
KelvinToCelsiusName ==
       ("temperature_k" :> "temperature_c")
    @@ ("thermal_sensation_k" :> "thermal_sensation_c")
    @@ ("temp_min_k" :> "temp_min_c")
    @@ ("temp_max_k" :> "temp_max_c")

Raised(kind) == [ok |-> FALSE, error |-> kind]
Returned(v) == [ok |-> TRUE, value |-> v]

\* Lines 109-123: the columns transform adds to the normalized frame.
WithDerivedColumns(data, nowTs) ==
    LET weather_data == data["weather"][1]
    IN     data
        @@ ("weather_id" :> weather_data["id"])
        @@ ("weather_main" :> weather_data["main"])
        @@ ("weather_description" :> weather_data["description"])
        @@ ("weather_icon" :>
               <<"https://openweathermap.org/img/wn/", weather_data["icon"], "@2x.png">>)
        @@ ("sys_sunrise" :> data["sys.sunrise"] + data["timezone"])
        @@ ("sys_sunset" :> data["sys.sunset"] + data["timezone"])
        @@ ("collection_timestamp" :> nowTs)

\* Lines 148-151: keep the columns of columns_to_keep that exist, renamed.
available_cols(df) ==
    SelectSeq(columns_to_keep, LAMBDA p : p[1] \in DOMAIN df)

RenameKept(df) ==
    LET kept == available_cols(df)
    IN  [c \in {kept[k][2] : k \in DOMAIN kept} |->
            LET k == CHOOSE k \in DOMAIN kept : kept[k][2] = c
            IN  df[kept[k][1]]]

\* A conversion that subtracts 273 instead of 273.15.
AddCelsiusWholeDegrees(row) ==
    LET k_cols == DOMAIN row \cap DOMAIN KelvinToCelsiusName
    IN  row @@ [c \in {KelvinToCelsiusName[k] : k \in k_cols} |->
                   LET k == CHOOSE k \in k_cols : KelvinToCelsiusName[k] = c
                   IN  row[k] - 27300]

\* Lines 153-158: one Celsius column per column whose name contains '_k'.
AddCelsius(row) ==
    LET k_cols == DOMAIN row \cap DOMAIN KelvinToCelsiusName
    IN  row @@ [c \in {KelvinToCelsiusName[k] : k \in k_cols} |->
                   LET k == CHOOSE k \in k_cols : KelvinToCelsiusName[k] = c
                   IN  row[k] - KelvinOffset]

transform(data, nowTs) ==
    IF "weather" \notin DOMAIN data THEN Raised("KeyError")
    ELSE IF Len(data["weather"]) = 0 THEN Raised("IndexError")
    ELSE IF ~ ({"id", "main", "description", "icon"} \subseteq DOMAIN data["weather"][1])
        THEN Raised("KeyError")
    ELSE IF ~ ({"sys.sunrise", "sys.sunset", "timezone"} \subseteq DOMAIN data)
        THEN Raised("KeyError")
    ELSE Returned(AddCelsius(RenameKept(WithDerivedColumns(data, nowTs))))

\* ------------------------------------------------------------------------
\* CSV hand-over between transform and load (CLEAN_PATH)
\* ------------------------------------------------------------------------
\* Column order of the written frame: the kept columns, then the Celsius ones.
ColumnOrder ==
    [k \in 1..Len(columns_to_keep) |-> columns_to_keep[k][2]]
    \o <<"temperature_c", "thermal_sensation_c", "temp_min_c", "temp_max_c">>

\* df.to_csv(index=False): a header line and one line of cells per row.
to_csv(rows) ==
    LET header == SelectSeq(ColumnOrder,
                            LAMBDA c : \E r \in Range(rows) : c \in DOMAIN r)
    IN  [header |-> header,
         lines  |-> [n \in DOMAIN rows |->
                        [k \in DOMAIN header |->
                            IF header[k] \in DOMAIN rows[n]
                            THEN <<rows[n][header[k]]>> ELSE <<>>]]]

\* pd.read_csv: one row per line, an empty cell is NaN (absent).
read_csv(file) ==
    [n \in DOMAIN file.lines |->
        LET present == {k \in DOMAIN file.header : file.lines[n][k] # <<>>}
        IN  [c \in {file.header[k] : k \in present} |->
                LET k == CHOOSE k \in present : file.header[k] = c
                IN  file.lines[n][k][1]]]

\* ------------------------------------------------------------------------
\* Storage: the PostgreSQL catalog and the table weather.weather_data
\* ------------------------------------------------------------------------
\* Columns of CREATE TABLE weather.weather_data (unquoted, so lower-cased).
TableColumns ==
    {"id", "city", "temperature_k", "humidity", "thermal_sensation_k",
     "temp_min_k", "temp_max_k", "pressure", "wind_speed", "wind_direction",
     "latitude", "longitude", "temperature_c", "thermal_sensation_c",
     "temp_min_c", "temp_max_c", "weather_id", "weather_main",
     "weather_description", "weather_icon", "sys_id", "sys_country",
     "sys_sunrise", "sys_sunset", "collection_timestamp"}

NullableColumns == {"pressure", "wind_speed", "wind_direction"}

\* Columns an INSERT must supply: NOT NULL and without a default (id is SERIAL).
RequiredColumns == TableColumns \ (NullableColumns \cup {"id"})

\* CREATE SCHEMA IF NOT EXISTS weather, on the list of namespaces.
CreateSchemaIfNotExists(catalog, name) ==
    IF name \in Range(catalog) THEN catalog ELSE Append(catalog, name)

\* DROP TABLE IF EXISTS followed by CREATE TABLE: the table ends up empty.
DropAndCreateTable(catalog, rows, name) ==
    [relations |-> IF name \in Range(catalog) THEN catalog ELSE Append(catalog, name),
     rows |-> <<>>]

\* CREATE TABLE IF NOT EXISTS weather.weather_data, on the list of relations
\* and the rows of the table: a new table is empty, an existing one is kept.
CreateTableIfNotExists(catalog, rows, name) ==
    IF name \in Range(catalog)
    THEN [relations |-> catalog, rows |-> rows]
    ELSE [relations |-> Append(catalog, name), rows |-> <<>>]

\* One INSERT of the frame's row; the SERIAL default supplies id.
InsertRow(row, id) ==
    IF ~ (DOMAIN row \subseteq TableColumns) THEN Raised("UndefinedColumn")
    ELSE IF ~ (RequiredColumns \subseteq DOMAIN row) THEN Raised("NotNullViolation")
    ELSE Returned(("id" :> id) @@ row)

\* to_sql with if_exists="replace": the table holds the new rows only.
ToSqlReplace(stored, rows, firstId) ==
    Returned([n \in DOMAIN rows |-> ("id" :> firstId + n - 1) @@ rows[n]])

\* An insert that skips the rows already stored (an upsert on all columns).
ToSqlSkipDuplicates(stored, rows, firstId) ==
    LET fresh == SelectSeq(rows, LAMBDA r :
                    ~ \E k \in DOMAIN stored : Without(stored[k], {"id"}) = r)
    IN  Returned(stored \o [n \in DOMAIN fresh |-> ("id" :> firstId + n - 1) @@ fresh[n]])

\* df.to_sql(..., if_exists="append"): all rows in one transaction.
to_sql(stored, rows, firstId) ==
    LET results == [n \in DOMAIN rows |-> InsertRow(rows[n], firstId + n - 1)]
    IN  IF \E n \in DOMAIN rows : ~ results[n].ok
        THEN Raised((results[CHOOSE n \in DOMAIN rows : ~ results[n].ok]).error)
        ELSE Returned(stored \o [n \in DOMAIN rows |-> results[n].value])

\* ------------------------------------------------------------------------
\* State
\* ------------------------------------------------------------------------
VARIABLES
    pc,           \* per DAG run: the task/step it is at, "success" or "failed"
    ran,          \* per DAG run: the <<step, succeeded>> it has executed, in order
    err,          \* per DAG run: the exception that failed it, or "none"
    fetched,      \* per DAG run: <<document>> extract() returned, or <<>>
    tin,          \* per DAG run: <<document>> transform() read, or <<>>
    tout,         \* per DAG run: <<row>> transform() returned, or <<>>
    ldf,          \* per DAG run: the frame load() read from CLEAN_PATH
    appended,     \* per DAG run: the rows its to_sql stored
    rawFile,      \* /tmp/weather_raw.json: <<document>>, or <<>> if missing
    cleanFile,    \* /tmp/weather_clean.csv: <<csv>>, or <<>> if missing
    namespaces,   \* database: the schemas named weather, as a list
    relations,    \* database: the tables named weather.weather_data, as a list
    weather_data, \* database: the rows of weather.weather_data, in insertion order
    serial,       \* database: next value of the id sequence
    now,          \* wall clock, seconds
    lastLoad,     \* <<[frame, error]>> of the latest whole load() call, or <<>>
    cities_cache, \* st.cache_data of list_cities: <<list>>, or <<>>
    data_cache,   \* st.cache_data of load_data: <<city, start, end>> -> frame
    last_refresh, \* st.session_state["_last_auto_refresh_at"]: <<time>>, or <<>>
    mpc,          \* main(): "top" (before list_cities) or "load" (before load_data)
    city,         \* main(): the value of the City selectbox
    view,         \* main(): what the last script run ended with
    returned,     \* <<[args, df, hit]>> of the latest load_data call, or <<>>
    queried,      \* <<[args, at]>> of the latest query load_data completed, or <<>>
    others,       \* the other browser sessions: session_state, position, page
    frame,        \* the frame handed to the render_* functions
    rendered      \* what the latest render_* call drew

pipeVars == <<pc, ran, err, fetched, tin, tout, ldf, appended>>
fileVars == <<rawFile, cleanFile>>
dbVars == <<namespaces, relations, weather_data, serial>>
dashVars == <<cities_cache, data_cache, last_refresh, mpc, city, view, returned,
              queried, others>>
aggVars == <<frame, rendered>>
vars == <<pipeVars, fileVars, dbVars, now, lastLoad, dashVars, aggVars>>

\* ------------------------------------------------------------------------
\* The DAG: t_extract >> t_transform >> t_load, load() being four steps
\* ------------------------------------------------------------------------
StepOrder ==
    <<"extract", "transform", "read_csv", "ensure_schema", "ensure_table", "to_sql">>

StepAfter(step) ==
    LET k == CHOOSE k \in DOMAIN StepOrder : StepOrder[k] = step
    IN  IF k = Len(StepOrder) THEN "success" ELSE StepOrder[k + 1]

\* A DAG whose downstream tasks run whatever the upstream task's outcome.
ProceedWhateverTheOutcome(step, ok) == StepAfter(step)

\* Where a run goes after a step: an exception fails the task, and with the
\* default trigger rule and no retries the downstream tasks never run.
Proceed(step, ok) == IF ok THEN StepAfter(step) ELSE "failed"

Finish(i, step, ok, error) ==
    /\ pc' = [pc EXCEPT ![i] = Proceed(step, ok)]
    /\ ran' = [ran EXCEPT ![i] = Append(@, <<step, ok>>)]
    /\ err' = [err EXCEPT ![i] = IF ok THEN @ ELSE error]

NoCity == "<None>"

BlankView == [state |-> "blank", df |-> <<>>, latest |-> <<>>, chart |-> <<>>]

\* Bound: browser sessions served by the one Streamlit process.
NumSessions == 2

OtherSessions == 1..(NumSessions - 1)

\* A browser session before its first script run: empty st.session_state.
NewSession ==
    [last_refresh |-> <<>>, mpc |-> "top", city |-> NoCity, view |-> BlankView]

InitOther ==
    /\ pc = [i \in Invocations |-> "extract"]
    /\ ran = [i \in Invocations |-> <<>>]
    /\ err = [i \in Invocations |-> NONE]
    /\ fetched = [i \in Invocations |-> <<>>]
    /\ tin = [i \in Invocations |-> <<>>]
    /\ tout = [i \in Invocations |-> <<>>]
    /\ ldf = [i \in Invocations |-> <<>>]
    /\ appended = [i \in Invocations |-> <<>>]
    /\ rawFile = <<>>
    /\ cleanFile = <<>>
    /\ namespaces = <<>>
    /\ relations = <<>>
    /\ weather_data = <<>>
    /\ serial = 1
    /\ now = 0
    /\ lastLoad = <<>>
    /\ cities_cache = <<>>
    /\ data_cache = <<>>
    /\ last_refresh = <<>>
    /\ mpc = "top"
    /\ city = NoCity
    /\ view = BlankView
    /\ returned = <<>>
    /\ queried = <<>>
    /\ others = [k \in OtherSessions |-> NewSession]
    /\ rendered = <<>>

Init == InitOther /\ frame = <<>>

\* extract(): missing key, HTTP error or timeout raise; otherwise the document
\* is written to RAW_PATH.
ExtractFails(i) ==
    /\ pc[i] = "extract"
    /\ Finish(i, "extract", FALSE, "RequestError")
    /\ UNCHANGED <<fetched, tin, tout, ldf, appended, fileVars, dbVars, now,
                   lastLoad, dashVars, aggVars>>

Extract(i) ==
    /\ pc[i] = "extract"
    /\ \E data \in ApiResponses :
          /\ rawFile' = <<data>>
          /\ fetched' = [fetched EXCEPT ![i] = <<data>>]
    /\ Finish(i, "extract", TRUE, NONE)
    /\ UNCHANGED <<tin, tout, ldf, appended, cleanFile, dbVars, now,
                   lastLoad, dashVars, aggVars>>

\* transform(): reads RAW_PATH, writes CLEAN_PATH unless it raises.
Transform(i) ==
    /\ pc[i] = "transform"
    /\ rawFile # <<>>
    /\ LET data == rawFile[1]
           res == transform(data, now)
       IN  /\ tin' = [tin EXCEPT ![i] = <<data>>]
           /\ IF res.ok
              THEN /\ tout' = [tout EXCEPT ![i] = <<res.value>>]
                   /\ cleanFile' = <<to_csv(<<res.value>>)>>
                   /\ Finish(i, "transform", TRUE, NONE)
              ELSE /\ Finish(i, "transform", FALSE, res.error)
                   /\ UNCHANGED <<tout, cleanFile>>
    /\ UNCHANGED <<fetched, ldf, appended, rawFile, dbVars, now,
                   lastLoad, dashVars, aggVars>>

\* load(), line 165: df = pd.read_csv(CLEAN_PATH)
LoadReadCsv(i) ==
    /\ pc[i] = "read_csv"
    /\ cleanFile # <<>>
    /\ ldf' = [ldf EXCEPT ![i] = read_csv(cleanFile[1])]
    /\ Finish(i, "read_csv", TRUE, NONE)
    /\ UNCHANGED <<fetched, tin, tout, appended, fileVars, dbVars, now,
                   lastLoad, dashVars, aggVars>>

\* A storage statement that cannot reach the database raises.
StorageDown(i) ==
    /\ pc[i] \in {"ensure_schema", "ensure_table", "to_sql"}
    /\ Finish(i, pc[i], FALSE, "StorageUnavailable")
    /\ UNCHANGED <<fetched, tin, tout, ldf, appended, fileVars, dbVars, now,
                   lastLoad, dashVars, aggVars>>

\* _ensure_schema_exists(engine)
EnsureSchema(i) ==
    /\ pc[i] = "ensure_schema"
    /\ namespaces' = CreateSchemaIfNotExists(namespaces, "weather")
    /\ Finish(i, "ensure_schema", TRUE, NONE)
    /\ UNCHANGED <<fetched, tin, tout, ldf, appended, fileVars,
                   relations, weather_data, serial, now,
                   lastLoad, dashVars, aggVars>>

\* _ensure_table_exists(engine)
EnsureTable(i) ==
    /\ pc[i] = "ensure_table"
    /\ IF "weather" \in Range(namespaces)
       THEN LET made == CreateTableIfNotExists(relations, weather_data,
                                               "weather.weather_data")
            IN  /\ relations' = made.relations
                /\ weather_data' = made.rows
                /\ Finish(i, "ensure_table", TRUE, NONE)
       ELSE /\ Finish(i, "ensure_table", FALSE, "InvalidSchemaName")
            /\ UNCHANGED <<relations, weather_data>>
    /\ UNCHANGED <<fetched, tin, tout, ldf, appended, fileVars,
                   namespaces, serial, now, lastLoad, dashVars, aggVars>>

\* load(), lines 176-185: df.to_sql(..., if_exists="append"), then dispose.
LoadToSql(i) ==
    /\ pc[i] = "to_sql"
    /\ LET res == to_sql(weather_data, ldf[i], serial)
       IN  /\ serial' = serial + Len(ldf[i])
           /\ IF res.ok
              THEN /\ weather_data' = res.value
                   /\ appended' = [appended EXCEPT ![i] = @ \o ldf[i]]
                   /\ Finish(i, "to_sql", TRUE, NONE)
              ELSE /\ Finish(i, "to_sql", FALSE, res.error)
                   /\ UNCHANGED <<weather_data, appended>>
    /\ UNCHANGED <<fetched, tin, tout, ldf, fileVars, namespaces, relations, now,
                   lastLoad, dashVars, aggVars>>

Tick ==
    /\ now < MaxTicks * TickSeconds
    /\ now' = now + TickSeconds
    /\ UNCHANGED <<pipeVars, fileVars, dbVars, lastLoad, dashVars, aggVars>>

\* The pipeline, its runs overlapping freely.
Next ==
    \/ \E i \in Invocations :
          \/ ExtractFails(i)
          \/ Extract(i)
          \/ Transform(i)
          \/ LoadReadCsv(i)
          \/ StorageDown(i)
          \/ EnsureSchema(i)
          \/ EnsureTable(i)
          \/ LoadToSql(i)
    \/ Tick

Spec == Init /\ [][Next]_vars

\* ------------------------------------------------------------------------
\* A whole load() call, as the dashboard's specifications see the pipeline:
\* CLEAN_PATH holds what some transform() wrote at some earlier time.
\* ------------------------------------------------------------------------
\* Bound: INSERT statements the dashboard's specifications let reach storage.
MaxInserts == 2

Times == {k * TickSeconds : k \in 0..MaxTicks}

\* The frames load() may read from CLEAN_PATH: whatever a transform() that
\* did not raise wrote, at any time of the model clock.
WrittenFrames ==
    {read_csv(to_csv(<<transform(p[1], p[2]).value>>)) :
        p \in {q \in ApiResponses \X Times : transform(q[1], q[2]).ok}}

\* load(): read_csv, the two provisioning calls and to_sql, of which the
\* first `reached` storage statements reach the database.
Load ==
    /\ serial <= MaxInserts
    /\ \E df \in WrittenFrames, reached \in 0..3 :
          /\ \A n \in DOMAIN df : df[n]["collection_timestamp"] <= now
          /\ LET ns == IF reached >= 1
                       THEN CreateSchemaIfNotExists(namespaces, "weather")
                       ELSE namespaces
                 made == IF reached >= 2 /\ "weather" \in Range(ns)
                         THEN CreateTableIfNotExists(relations, weather_data,
                                                     "weather.weather_data")
                         ELSE [relations |-> relations, rows |-> weather_data]
                 res == IF reached = 3 THEN to_sql(made.rows, df, serial)
                        ELSE Raised("StorageUnavailable")
             IN  /\ namespaces' = ns
                 /\ relations' = made.relations
                 /\ serial' = IF reached = 3 THEN serial + Len(df) ELSE serial
                 /\ weather_data' = IF res.ok THEN res.value ELSE made.rows
                 /\ lastLoad' = <<[frame |-> df,
                                   error |-> IF res.ok THEN NONE ELSE res.error]>>
    /\ UNCHANGED <<pipeVars, fileVars, now, dashVars, aggVars>>

\* ------------------------------------------------------------------------
\* Dashboard (app.py): list_cities, load_data and main
\* ------------------------------------------------------------------------
\* Seconds in a day: the default range is yesterday 00:00 to today 23:59:59.
DaySeconds == 86400
\* Auto refresh: (now - last_refresh).total_seconds() >= 120
RefreshSeconds == 120

\* ORDER BY city, on the city names the model's documents carry.
CityCollation == <<"Niteroi", "Rio de Janeiro">>

\* `if city:` is false for None and for the empty string.
Truthy(c) == c # NoCity /\ c # ""

\* A range filter that leaves out the rows at the end bound.
SelectedBeforeEnd(row, c, start_dt, end_dt) ==
    /\ start_dt <= row["collection_timestamp"]
    /\ row["collection_timestamp"] < end_dt
    /\ (c # NoCity /\ c # "") => row["city"] = c

\* WHERE collection_timestamp BETWEEN :start AND :end [AND city = :city]
Selected(row, c, start_dt, end_dt) ==
    /\ start_dt <= row["collection_timestamp"]
    /\ row["collection_timestamp"] <= end_dt
    /\ Truthy(c) => row["city"] = c

\* The orders in which a sort on collection_timestamp may return the rows S
\* (rows with equal timestamps come in any order).
AscendingOrders(S) ==
    {s \in [1..Cardinality(S) -> S] :
        /\ \A a, b \in DOMAIN s : a # b => s[a] # s[b]
        /\ \A a, b \in DOMAIN s :
              a < b => s[a]["collection_timestamp"] <= s[b]["collection_timestamp"]}

\* SELECT * ... WHERE ... ORDER BY collection_timestamp ASC
SelectRange(stored, c, start_dt, end_dt) ==
    AscendingOrders({stored[k] : k \in {n \in DOMAIN stored :
                                          Selected(stored[n], c, start_dt, end_dt)}})

\* SELECT DISTINCT city ... WHERE city IS NOT NULL ORDER BY city
SelectCities(stored) ==
    SelectSeq(CityCollation,
              LAMBDA c : \E k \in DOMAIN stored :
                            "city" \in DOMAIN stored[k] /\ stored[k]["city"] = c)

CallRecord(key, df, hit, error) ==
    [args |-> key, df |-> df, hit |-> hit, error |-> error]

\* @st.cache_data load_data(city, start_dt, end_dt): the cached frame for
\* these arguments if there is one, else the query, whose result is cached.
load_data(c, start_dt, end_dt) ==
    LET key == <<c, start_dt, end_dt>>
    IN  IF key \in DOMAIN data_cache
        THEN /\ returned' = <<CallRecord(key, data_cache[key], TRUE, NONE)>>
             /\ UNCHANGED <<data_cache, queried>>
        ELSE \/ /\ relations # <<>>
                /\ \E df \in SelectRange(weather_data, c, start_dt, end_dt) :
                      /\ data_cache' = data_cache @@ (key :> df)
                      /\ returned' = <<CallRecord(key, df, FALSE, NONE)>>
                      /\ queried' = <<[args |-> key, at |-> now]>>
             \/ /\ returned' = <<CallRecord(key, <<>>, FALSE,
                                   IF relations = <<>> THEN "UndefinedTable"
                                   ELSE "StorageUnavailable")>>
                /\ UNCHANGED <<data_cache, queried>>

\* The first row of the sorted frame instead of the last.
EarliestRows(df) ==
    LET S == {df[k] : k \in DOMAIN df}
    IN  {r \in S : \A q \in S : r["collection_timestamp"] <= q["collection_timestamp"]}

\* df.sort_values("collection_timestamp").iloc[-1]
LatestRows(df) == {s[Len(s)] : s \in AscendingOrders(Range(df))}

DayStart(t) == t - (t % DaySeconds)

\* ------------------------------------------------------------------------
\* Hourly resampling (render_hero, render_hourly_chart, render_extra_timeseries)
\* ------------------------------------------------------------------------
\* Width of a resample("1H") bin, seconds.
HourSeconds == 3600
\* hourly_data.head(8)
HeroBuckets == 8

\* A bin anchored at the half hour (resample("1H", offset="30min")).
BucketOfHalfPast(ts) ==
    ts - ((ts + HourSeconds - (HourSeconds \div 2)) % HourSeconds)

\* A bin label obtained by rounding to the nearest hour.
BucketOfRounded(ts) ==
    (ts + (HourSeconds \div 2)) - ((ts + (HourSeconds \div 2)) % HourSeconds)

\* The left-closed, left-labelled bin of a timestamp: the start of its hour.
BucketOf(ts) == ts - (ts % HourSeconds)

RECURSIVE SumSeq(_)
SumSeq(s) == IF s = <<>> THEN 0 ELSE Head(s) + SumSeq(Tail(s))

RECURSIVE Gcd(_, _)
Gcd(a, b) == IF b = 0 THEN a ELSE Gcd(b, a % b)

Abs(x) == IF x < 0 THEN -x ELSE x

\* The mean of a non-empty list of numbers, as a fraction in lowest terms.
Mean(values) ==
    LET total == SumSeq(values)
        g == Gcd(Len(values), Abs(total))
    IN  [num |-> total \div g, den |-> Len(values) \div g]

\* The bins resample() lays over the frame: every hour from the first row's
\* to the last row's, with or without rows in it.
Bins(df) ==
    IF df = <<>> THEN <<>>
    ELSE LET starts == {BucketOf(df[k]["collection_timestamp"]) : k \in DOMAIN df}
             lo == CHOOSE b \in starts : \A c \in starts : b <= c
             hi == CHOOSE b \in starts : \A c \in starts : c <= b
         IN  [n \in 1..((hi - lo) \div HourSeconds + 1) |-> lo + (n - 1) * HourSeconds]

\* The non-NaN values of a column in the rows of one bin, in frame order.
ValuesIn(df, col, bin) ==
    LET rows == SelectSeq(df, LAMBDA r :
                    /\ BucketOf(r["collection_timestamp"]) = bin
                    /\ col \in DOMAIN r)
    IN  [n \in DOMAIN rows |-> rows[n][col]]

\* df.set_index("collection_timestamp")[col].resample("1H").mean()
\*   .dropna().reset_index()
resample_mean(df, col) ==
    LET bins == Bins(df)
        kept == SelectSeq(bins, LAMBDA b : ValuesIn(df, col, b) # <<>>)
    IN  [n \in DOMAIN kept |->
            [collection_timestamp |-> kept[n], value |-> Mean(ValuesIn(df, col, kept[n]))]]

\* render_hero, lines 176-181: the four aggregates per bin, the bins with a
\* NaN aggregate dropped.
hero_resample(df) ==
    LET bins == Bins(df)
        cols == {"humidity", "temperature_c", "weather_main", "weather_icon"}
        kept == SelectSeq(bins, LAMBDA b : \A c \in cols : ValuesIn(df, c, b) # <<>>)
    IN  [n \in DOMAIN kept |->
            [collection_timestamp |-> kept[n],
             humidity |-> Mean(ValuesIn(df, "humidity", kept[n])),
             temperature_c |-> Mean(ValuesIn(df, "temperature_c", kept[n])),
             weather_main |-> Head(ValuesIn(df, "weather_main", kept[n])),
             weather_icon |-> Head(ValuesIn(df, "weather_icon", kept[n]))]]

\* hourly_data.head(8)
head(rows, n) == SubSeq(rows, 1, IF Len(rows) < n THEN Len(rows) ELSE n)

\* The humidity and temperature series of an hourly_data frame.
HeroSeries(hourly_data) ==
    [c \in {"humidity", "temperature_c"} |->
        [n \in DOMAIN hourly_data |->
            [collection_timestamp |-> hourly_data[n]["collection_timestamp"],
             value |-> hourly_data[n][c]]]]

\* What a render_* call computed: the resampled series and the series drawn.
Drawn(by, hourly, charts) == <<[by |-> by, hourly |-> hourly, charts |-> charts]>>

\* render_hero(df, latest, use_fahrenheit): the hourly chart of the frame,
\* drawn from the first eight rows of hourly_data.
RenderHero ==
    /\ LET hourly_data == hero_resample(frame)
       IN  rendered' = Drawn("render_hero", HeroSeries(hourly_data),
                             HeroSeries(head(hourly_data, HeroBuckets)))
    /\ UNCHANGED <<pipeVars, fileVars, dbVars, now, lastLoad, dashVars, frame>>

\* render_hourly_chart(df, use_fahrenheit)
RenderHourlyChart ==
    /\ LET hourly == [c \in {"temperature_c"} |-> resample_mean(frame, c)]
       IN  rendered' = Drawn("render_hourly_chart", hourly, hourly)
    /\ UNCHANGED <<pipeVars, fileVars, dbVars, now, lastLoad, dashVars, frame>>

\* render_extra_timeseries(df)
RenderExtraTimeseries ==
    /\ LET s == [c \in {"humidity", "pressure", "wind_speed"} |->
                    resample_mean(frame, c)]
       IN  rendered' = Drawn("render_extra_timeseries", s, s)
    /\ UNCHANGED <<pipeVars, fileVars, dbVars, now, lastLoad, dashVars, frame>>

\* main(), lines 335-343: the cache is cleared and the script rerun when the
\* session's last refresh is at least RefreshSeconds old.
MainRefresh ==
    /\ mpc = "top"
    /\ last_refresh # <<>>
    /\ now - last_refresh[1] >= RefreshSeconds
    /\ cities_cache' = <<>>
    /\ data_cache' = <<>>
    /\ last_refresh' = <<now>>
    /\ UNCHANGED <<pipeVars, fileVars, dbVars, now, lastLoad, mpc, city, view,
                   returned, queried, others, aggVars>>

\* main(), lines 335-359: no refresh is due; list_cities() and the selectbox.
MainListCities ==
    /\ mpc = "top"
    /\ last_refresh # <<>> => now - last_refresh[1] < RefreshSeconds
    /\ last_refresh' = IF last_refresh = <<>> THEN <<now>> ELSE last_refresh
    /\ \/ /\ cities_cache # <<>> \/ relations # <<>>
          /\ LET cities == IF cities_cache # <<>> THEN cities_cache[1]
                           ELSE SelectCities(weather_data)
             IN  /\ cities_cache' = <<cities>>
                 /\ IF cities = <<>> THEN city' = NoCity
                    ELSE city' \in Range(cities)
          /\ mpc' = "load"
          /\ UNCHANGED view
       \/ /\ cities_cache = <<>>
          /\ view' = [BlankView EXCEPT !.state = "exception"]
          /\ UNCHANGED <<cities_cache, city, mpc>>
    /\ UNCHANGED <<pipeVars, fileVars, dbVars, now, lastLoad, data_cache,
                   returned, queried, others, aggVars>>

\* main(), lines 363-375: load_data over the default range, then either the
\* "no data" warning or the latest row.
MainLoadData ==
    /\ mpc = "load"
    /\ load_data(city, DayStart(now) - DaySeconds, DayStart(now) + DaySeconds - 1)
    /\ LET call == returned'[1]
       IN  IF call.error # NONE
           THEN view' = [BlankView EXCEPT !.state = "exception"]
           ELSE IF call.df = <<>>
           THEN view' = [BlankView EXCEPT !.state = "nodata"]
           ELSE \E latest_row \in LatestRows(call.df) :
                   view' = [state |-> "hero", df |-> call.df,
                            latest |-> <<latest_row>>,
                            chart |-> <<HeroSeries(head(hero_resample(call.df),
                                                                 HeroBuckets))>>]
    /\ mpc' = "top"
    /\ UNCHANGED <<pipeVars, fileVars, dbVars, now, lastLoad, cities_cache,
                   last_refresh, city, others, aggVars>>

\* Arguments of the direct load_data calls.
CityArgs == {NoCity, "", "Rio de Janeiro"}
RangeArgs == {r \in Times \X Times : r[1] <= r[2]}

\* Bound: frames st.cache_data holds for load_data before direct calls with
\* new arguments stop.
MaxCached == 1

\* load_data(city, start_dt, end_dt) called with arguments of the caller's choice.
LoadDataCall ==
    /\ \E c \in CityArgs, r \in RangeArgs :
          /\ \/ <<c, r[1], r[2]>> \in DOMAIN data_cache
             \/ Cardinality(DOMAIN data_cache) < MaxCached
          /\ load_data(c, r[1], r[2])
    /\ UNCHANGED <<pipeVars, fileVars, dbVars, now, lastLoad, cities_cache,
                   last_refresh, mpc, city, view, others, aggVars>>

NextDash ==
    \/ Load
    \/ Tick
    \/ MainRefresh
    \/ MainListCities
    \/ MainLoadData

\* The dashboard of one browser session beside whole load() calls.
SpecDash == Init /\ [][NextDash]_vars

\* The script runs of another browser session get their turn: the session
\* state, script position and page of the session that was running are set
\* aside, those of session k are taken up.  The caches of st.cache_data
\* belong to the process and stay as they are.
SwitchSession(k) ==
    /\ others' = [others EXCEPT ![k] =
                     [last_refresh |-> last_refresh, mpc |-> mpc,
                      city |-> city, view |-> view]]
    /\ last_refresh' = others[k].last_refresh
    /\ mpc' = others[k].mpc
    /\ city' = others[k].city
    /\ view' = others[k].view
    /\ UNCHANGED <<pipeVars, fileVars, dbVars, now, lastLoad, cities_cache,
                   data_cache, returned, queried, aggVars>>

\* The table after two load() calls at time 0, one per city.
LoadedTable ==
    LET first == to_sql(<<>>, read_csv(to_csv(<<transform(FullObs, 0).value>>)), 1)
    IN  to_sql(first.value, read_csv(to_csv(<<transform(OtherCityObs, 0).value>>)), 2).value

\* The pipeline has run for both cities; no browser session has run yet.
InitSessions ==
    /\ pc = [i \in Invocations |-> "extract"]
    /\ ran = [i \in Invocations |-> <<>>]
    /\ err = [i \in Invocations |-> NONE]
    /\ fetched = [i \in Invocations |-> <<>>]
    /\ tin = [i \in Invocations |-> <<>>]
    /\ tout = [i \in Invocations |-> <<>>]
    /\ ldf = [i \in Invocations |-> <<>>]
    /\ appended = [i \in Invocations |-> <<>>]
    /\ rawFile = <<>>
    /\ cleanFile = <<>>
    /\ namespaces = <<"weather">>
    /\ relations = <<"weather.weather_data">>
    /\ weather_data = LoadedTable
    /\ serial = Len(LoadedTable) + 1
    /\ now = 0
    /\ lastLoad = <<>>
    /\ cities_cache = <<>>
    /\ data_cache = <<>>
    /\ last_refresh = <<>>
    /\ mpc = "top"
    /\ city = NoCity
    /\ view = BlankView
    /\ returned = <<>>
    /\ queried = <<>>
    /\ others = [k \in OtherSessions |-> NewSession]
    /\ frame = <<>>
    /\ rendered = <<>>

\* Time passes between script runs: a run is short beside a tick.
TickBetweenRuns ==
    /\ mpc = "top"
    /\ \A k \in OtherSessions : others[k].mpc = "top"
    /\ Tick

NextSessions ==
    \/ TickBetweenRuns
    \/ MainRefresh
    \/ MainListCities
    \/ MainLoadData
    \/ \E k \in OtherSessions : SwitchSession(k)

\* The dashboard of several browser sessions over a loaded table.
SpecSessions == InitSessions /\ [][NextSessions]_vars

NextQuery ==
    \/ Load
    \/ Tick
    \/ LoadDataCall

\* load_data called directly, with any arguments, beside whole load() calls.
SpecQuery == Init /\ [][NextQuery]_vars

\* ------------------------------------------------------------------------
\* Frames for the render_* functions: what load_data can return for a table
\* filled by the pipeline.
\* ------------------------------------------------------------------------
\* Bound: observations one per hour from 12:25 on, beside those before 12:00.
TailHours == 7

ClockTime(h, m) == h * HourSeconds + m * 60

\* <<time, humidity, pressure or <<>> >> of the observations a frame may hold.
Observations ==
    << <<ClockTime(10, 5), 40, <<1012>> >>,
       <<ClockTime(10, 15), 60, <<>> >>,
       <<ClockTime(10, 55), 40, <<1000>> >>,
       <<ClockTime(11, 5), 60, <<1012>> >>,
       <<ClockTime(11, 50), 60, <<1012>> >> >>
    \o [k \in 1..TailHours |->
           <<ClockTime(11 + k, 25), 50, IF k % 2 = 0 THEN <<1012>> ELSE <<>> >>]

\* The stored row of an observation: transform, the CSV hand-over, INSERT.
StoredObservation(id) ==
    LET o == Observations[id]
        doc == IF o[3] = <<>>
               THEN Without([FullObs EXCEPT !["main.humidity"] = o[2]], {"main.pressure"})
               ELSE [FullObs EXCEPT !["main.humidity"] = o[2], !["main.pressure"] = o[3][1]]
    IN  InsertRow(read_csv(to_csv(<<transform(doc, o[1]).value>>))[1], id).value

StoredObservations == [id \in DOMAIN Observations |-> StoredObservation(id)]

Frames ==
    {SelectSeq(StoredObservations, LAMBDA r : r["id"] \in ids) :
        ids \in SUBSET (DOMAIN Observations)}

InitResample == InitOther /\ frame \in Frames

NextResample ==
    \/ RenderHero
    \/ RenderHourlyChart
    \/ RenderExtraTimeseries

\* The render_* functions applied to every frame of Frames.
SpecResample == InitResample /\ [][NextResample]_vars

\* ------------------------------------------------------------------------
\* transform() on its own, for documents over a range of temperatures
\* ------------------------------------------------------------------------
\* Kelvin readings in hundredths: -30.00 C, -0.01 C, 0.00 C, 0.01 C, 37.50 C.
KelvinSamples == {24315, 27314, 27315, 27316, 31065}

\* Documents with every combination of the samples in main.temp and
\* main.feels_like, two of them in main.temp_min and main.temp_max, with and
\* without the optional main.pressure, and the documents transform rejects
\* or returns partially.
RawObservations ==
    LET full == {[FullObs EXCEPT !["main.temp"] = t, !["main.feels_like"] = f,
                                 !["main.temp_min"] = lo, !["main.temp_max"] = hi] :
                    t \in KelvinSamples, f \in KelvinSamples,
                    lo \in {24315, 27316}, hi \in {27314, 31065}}
    IN  full \cup {Without(d, {"main.pressure"}) : d \in full}
             \cup {NoTempObs, EmptyWeatherObs}

\* One call transform() of run 1 on a document read from RAW_PATH.
TransformCall ==
    /\ \E data \in RawObservations :
          LET res == transform(data, now)
          IN  /\ tin' = [tin EXCEPT ![1] = <<data>>]
              /\ tout' = [tout EXCEPT ![1] = IF res.ok THEN <<res.value>> ELSE <<>>]
              /\ err' = [err EXCEPT ![1] = IF res.ok THEN NONE ELSE res.error]
    /\ UNCHANGED <<pc, ran, fetched, ldf, appended, fileVars, dbVars, now,
                   lastLoad, dashVars, aggVars>>

NextTransform == TransformCall \/ Tick

SpecTransform == Init /\ [][NextTransform]_vars

\* ========================================================================
\* Claims about the pipeline (specification Spec)
\* ========================================================================
IsPrefix(s, t) == Len(s) <= Len(t) /\ \A k \in DOMAIN s : s[k] = t[k]

StagesOf(i) == [k \in DOMAIN ran[i] |-> ran[i][k][1]]

\* C1: within one run the steps execute in the order extract, transform,
\* (read the frame,) ensure schema, ensure table, append, none of them twice;
\* a step that raised is the last step of its run, the run is then failed and
\* has appended no row; a run is successful only after all steps succeeded.
C1_StagesInOrderErrorsFatal ==
    \A i \in Invocations :
        /\ IsPrefix(StagesOf(i), StepOrder)
        /\ \A k \in DOMAIN ran[i] :
              ~ ran[i][k][2] =>
                  /\ k = Len(ran[i])
                  /\ pc[i] = "failed"
                  /\ appended[i] = <<>>
        /\ pc[i] = "failed" => (ran[i] # <<>> /\ ~ ran[i][Len(ran[i])][2])
        /\ pc[i] = "success" => (StagesOf(i) = StepOrder /\ appended[i] = ldf[i])
        /\ pc[i] \notin {"failed", "success"} => pc[i] = StepOrder[Len(ran[i]) + 1]
        /\ appended[i] # <<>> => pc[i] = "success"

\* One run failed at the table provisioning step while the other succeeded.
C1_Witness ==
    \E i, j \in Invocations :
        /\ pc[i] = "failed"
        /\ StagesOf(i) = SubSeq(StepOrder, 1, 5)
        /\ pc[j] = "success"
        /\ Len(weather_data) = 1

\* C3: the row a run appends is the one normalized from the document that this
\* same run fetched.
C3_RunAppendsItsOwnObservation ==
    \A i \in Invocations :
        appended[i] # <<>> =>
            LET own == transform(fetched[i][1], appended[i][1]["collection_timestamp"])
            IN  /\ own.ok
                /\ DOMAIN own.value = DOMAIN appended[i][1]
                /\ own.value = appended[i][1]

\* Source fields the WeatherRow invariants require: temperatures, humidity,
\* coordinates, city, country and the weather-condition entry.
RequiredSourceFields ==
    {"name", "main.temp", "main.feels_like", "main.temp_min", "main.temp_max",
     "main.humidity", "coord.lat", "coord.lon", "sys.country", "weather"}

Defective(data) ==
    \/ ~ (RequiredSourceFields \subseteq DOMAIN data)
    \/ Len(data["weather"]) = 0
    \/ ~ ({"id", "main", "description", "icon"} \subseteq DOMAIN data["weather"][1])

\* C4: for a document that lacks a required source field or has an empty
\* weather list, transform raises and returns no row, so none reaches load.
C4_DefectiveObservationRejected ==
    \A i \in Invocations :
        (tin[i] # <<>> /\ Defective(tin[i][1])) =>
            /\ tout[i] = <<>>
            /\ ldf[i] = <<>>
            /\ pc[i] = "failed"

ProvisioningStepOf(i) ==
    /\ pc[i] \in {"ensure_schema", "ensure_table"}
    /\ pc'[i] # pc[i]

\* C5: a provisioning call, repeated or interleaved with another run's, leaves
\* at most one namespace and one table, raises nothing but the storage being
\* unreachable, changes nothing that already exists and keeps every stored row.
C5_ProvisioningIdempotent ==
    [][\A i \in Invocations :
          ProvisioningStepOf(i) =>
              /\ weather_data' = weather_data
              /\ Len(namespaces') <= 1
              /\ Len(relations') <= 1
              /\ pc'[i] = "failed" => err'[i] = "StorageUnavailable"
              /\ (pc[i] = "ensure_schema" /\ pc'[i] # "failed") =>
                     namespaces' = <<"weather">>
              /\ (pc[i] = "ensure_table" /\ pc'[i] # "failed") =>
                     relations' = <<"weather.weather_data">>
              /\ namespaces # <<>> => namespaces' = namespaces
              /\ relations # <<>> => relations' = relations
      ]_vars

\* Both runs went through both provisioning calls and both rows are stored.
C5_Witness ==
    /\ \A i \in Invocations :
          /\ Len(ran[i]) >= 5
          /\ \A k \in 1..5 : ran[i][k][2]
    /\ namespaces = <<"weather">>
    /\ relations = <<"weather.weather_data">>
    /\ Len(weather_data) = NumInvocations

\* ========================================================================
\* Claims about storage and the read path (SpecDash, SpecQuery)
\* ========================================================================
StoredAs(row) == Without(row, {"id"})

\* C2: the table only grows at its end; when it grows, the step is a load()
\* that succeeded and the new rows are exactly the rows of the frame it read;
\* a step of the dashboard (list_cities, load_data, main) changes nothing in
\* storage.
C2_TableAppendOnly ==
    [][/\ IsPrefix(weather_data, weather_data')
       /\ weather_data' # weather_data =>
             /\ lastLoad' # <<>>
             /\ lastLoad'[1].error = NONE
             /\ Len(weather_data') = Len(weather_data) + Len(lastLoad'[1].frame)
             /\ \A n \in DOMAIN lastLoad'[1].frame :
                   StoredAs(weather_data'[Len(weather_data) + n]) = lastLoad'[1].frame[n]
             /\ UNCHANGED <<mpc, view, returned, last_refresh>>
       /\ (mpc' # mpc \/ returned' # returned \/ last_refresh' # last_refresh) =>
             UNCHANGED dbVars
      ]_vars

\* A dashboard run drew one stored row, and a second row was appended after.
C2_Witness ==
    /\ view.state = "hero"
    /\ Len(view.df) = 1
    /\ Len(weather_data) = 2
    /\ weather_data[1] = view.df[1]

\* C7: when main() gets a frame from load_data, it ends with the "no data"
\* warning and no latest row if the frame is empty, and otherwise with a latest
\* row that is a row of the frame and has the frame's maximal timestamp.
C7_LatestIsMaxOrNoData ==
    [][(mpc = "load" /\ mpc' = "top" /\ returned'[1].error = NONE) =>
          LET df == returned'[1].df
          IN  IF df = <<>>
              THEN view'.state = "nodata" /\ view'.latest = <<>>
              ELSE /\ view'.state = "hero"
                   /\ view'.df = df
                   /\ Len(view'.latest) = 1
                   /\ \E k \in DOMAIN df : df[k] = view'.latest[1]
                   /\ \A k \in DOMAIN df :
                         df[k]["collection_timestamp"]
                            <= view'.latest[1]["collection_timestamp"]
      ]_vars

\* The latest of two rows is the one inserted first (its timestamp is later).
C7_Witness ==
    /\ view.state = "hero"
    /\ Len(view.df) = 2
    /\ view.latest[1]["id"] = 1
    /\ \E k \in DOMAIN view.df :
          view.df[k]["collection_timestamp"] < view.latest[1]["collection_timestamp"]

\* The table is empty and the dashboard ended with the "no data" warning.
C7_WitnessNoData ==
    /\ view.state = "nodata"
    /\ relations # <<>>
    /\ weather_data = <<>>

SameObservation(r1, r2) == r1 # r2 /\ StoredAs(r1) = StoredAs(r2)

InRange(row, key) ==
    /\ key[2] <= row["collection_timestamp"]
    /\ row["collection_timestamp"] <= key[3]

CityGiven(key) == key[1] # NoCity /\ key[1] # ""

Matching(stored, key) ==
    {r \in Range(stored) :
        InRange(r, key) /\ (CityGiven(key) => r["city"] = key[1])}

Ascending(df) ==
    \A a, b \in DOMAIN df :
        a < b => /\ df[a]["collection_timestamp"] <= df[b]["collection_timestamp"]
                 /\ df[a] # df[b]

\* C10 as stated: whatever the table holds, a load_data call returns exactly
\* the stored rows in the range (of the given city), in ascending order.
C10_ReturnsExactlyStoredMatches ==
    [][(returned' # returned /\ returned'[1].error = NONE) =>
          /\ Range(returned'[1].df) = Matching(weather_data, returned'[1].args)
          /\ Ascending(returned'[1].df)
      ]_vars

\* C10 as amended: a load_data call returns only stored rows in the range (of
\* the given city), each once, in ascending order; a call that runs the query
\* returns all of them; a call answered from st.cache_data returns the frame
\* cached for its arguments, which may lack rows appended since.
C10_ReturnsMatchesAsOfQuery ==
    [][(returned' # returned /\ returned'[1].error = NONE) =>
          LET call == returned'[1]
          IN  /\ Range(call.df) \subseteq Matching(weather_data, call.args)
              /\ Ascending(call.df)
              /\ ~ call.hit =>
                    /\ Range(call.df) = Matching(weather_data, call.args)
                    /\ call.args \in DOMAIN data_cache'
                    /\ data_cache'[call.args] = call.df
              /\ call.hit =>
                    /\ call.args \in DOMAIN data_cache
                    /\ call.df = data_cache[call.args]
                    /\ UNCHANGED data_cache
      ]_vars

\* A query for one city and one instant returned one of two stored rows.
C10_Witness ==
    /\ returned # <<>>
    /\ ~ returned[1].hit
    /\ returned[1].error = NONE
    /\ CityGiven(returned[1].args)
    /\ Len(returned[1].df) = 1
    /\ Len(weather_data) = 2
    /\ \E k \in DOMAIN weather_data :
          /\ weather_data[k]["city"] = returned[1].args[1]
          /\ ~ InRange(weather_data[k], returned[1].args)

\* ========================================================================
\* Claims about the hourly resample (SpecResample)
\* ========================================================================
\* The rows of the frame that have a value of the metric.
RowsWith(col) == {k \in DOMAIN frame : col \in DOMAIN frame[k]}

\* The rows with a value whose timestamp lies in [start, start + 1h).
Contributing(col, start) ==
    {k \in RowsWith(col) :
        /\ start <= frame[k]["collection_timestamp"]
        /\ frame[k]["collection_timestamp"] < start + HourSeconds}

RECURSIVE Total(_, _)
Total(col, K) ==
    IF K = {} THEN 0
    ELSE LET k == CHOOSE k \in K : TRUE
         IN  frame[k][col] + Total(col, K \ {k})

IsMeanOf(value, col, K) ==
    /\ value.den > 0
    /\ value.num * Cardinality(K) = value.den * Total(col, K)

\* Two rows with a value fall in the bucket of one and the same emitted pair.
SameBucket(series, col, a, b) ==
    \E n \in DOMAIN series :
        {a, b} \subseteq Contributing(col, series[n]["collection_timestamp"])

ApartBy(a, b, seconds) ==
    frame[b]["collection_timestamp"] - frame[a]["collection_timestamp"] = seconds

IsHourlyMean(series, col) ==
    /\ \A n \in DOMAIN series :
          LET start == series[n]["collection_timestamp"]
          IN  /\ start % HourSeconds = 0
              /\ Contributing(col, start) # {}
              /\ IsMeanOf(series[n].value, col, Contributing(col, start))
    /\ \A n \in 1..(Len(series) - 1) :
          series[n]["collection_timestamp"] < series[n + 1]["collection_timestamp"]
    /\ \A k \in RowsWith(col) :
          \E n \in DOMAIN series : k \in Contributing(col, series[n]["collection_timestamp"])
    /\ \A a, b \in RowsWith(col) :
          ApartBy(a, b, 90 * 60) => ~ SameBucket(series, col, a, b)

\* The frame of the scenario: 10:05 with humidity 40, 11:50 with humidity 60.
ScenarioFrame ==
    [k \in DOMAIN frame |-> <<frame[k]["collection_timestamp"], frame[k]["humidity"]>>]
        = << <<ClockTime(10, 5), 40>>, <<ClockTime(11, 50), 60>> >>

ScenarioSeries ==
    << [collection_timestamp |-> ClockTime(10, 0), value |-> [num |-> 40, den |-> 1]],
       [collection_timestamp |-> ClockTime(11, 0), value |-> [num |-> 60, den |-> 1]] >>

\* C8: every resampled series has exactly one pair per wall-clock hour that
\* holds a row with a value of the metric, none for an hour without, in
\* ascending order, the value being the mean over exactly the rows of that
\* hour; rows 90 minutes apart are in different buckets; 10:05 (humidity 40)
\* and 11:50 (humidity 60) give [10:00 -> 40, 11:00 -> 60].  The series that
\* render_hero draws is the first eight pairs of its resample, the other two
\* functions draw the whole resample.
C8_HourlyResampleIsBucketMean ==
    rendered # <<>> =>
        LET r == rendered[1]
        IN  /\ \A col \in DOMAIN r.hourly : IsHourlyMean(r.hourly[col], col)
            /\ (ScenarioFrame /\ "humidity" \in DOMAIN r.hourly)
                  => r.hourly["humidity"] = ScenarioSeries
            /\ \A col \in DOMAIN r.charts :
                  r.charts[col] = IF r.by = "render_hero"
                                  THEN head(r.hourly[col], HeroBuckets)
                                  ELSE r.hourly[col]

\* The scenario has been rendered by render_extra_timeseries.
C8_Witness ==
    /\ rendered # <<>>
    /\ rendered[1].by = "render_extra_timeseries"
    /\ ScenarioFrame
    /\ rendered[1].charts["humidity"] = ScenarioSeries

\* C9 as stated: any two observations 10 minutes apart are in the same bucket.
C9_TenMinutesApartSameBucket ==
    rendered # <<>> =>
        \A col \in DOMAIN rendered[1].hourly :
            \A a, b \in RowsWith(col) :
                ApartBy(a, b, 10 * 60) => SameBucket(rendered[1].hourly[col], col, a, b)

\* C9, amended: two observations 10 minutes apart are in the same bucket when
\* the earlier one lies less than 50 minutes into its wall-clock hour, and in
\* two consecutive buckets otherwise.
C9_TenMinutesApartSameHourOrNext ==
    rendered # <<>> =>
        \A col \in DOMAIN rendered[1].hourly :
            LET series == rendered[1].hourly[col]
            IN  \A a, b \in RowsWith(col) :
                    ApartBy(a, b, 10 * 60) =>
                        IF frame[a]["collection_timestamp"] % HourSeconds < 50 * 60
                        THEN SameBucket(series, col, a, b)
                        ELSE \E n \in 1..(Len(series) - 1) :
                                /\ series[n + 1]["collection_timestamp"]
                                       = series[n]["collection_timestamp"] + HourSeconds
                                /\ a \in Contributing(col, series[n]["collection_timestamp"])
                                /\ b \in Contributing(col, series[n + 1]["collection_timestamp"])

\* render_hourly_chart has resampled a frame that holds a pair 10 minutes
\* apart within one hour (10:05, 10:15) and a pair 10 minutes apart across
\* the hour (10:55, 11:05).
C9_Witness ==
    /\ rendered # <<>>
    /\ rendered[1].by = "render_hourly_chart"
    /\ LET series == rendered[1].hourly["temperature_c"]
       IN  /\ \E a, b \in RowsWith("temperature_c") :
                 /\ ApartBy(a, b, 10 * 60)
                 /\ SameBucket(series, "temperature_c", a, b)
           /\ \E a, b \in RowsWith("temperature_c") :
                 /\ ApartBy(a, b, 10 * 60)
                 /\ ~ SameBucket(series, "temperature_c", a, b)

\* ========================================================================
\* Claims about the conversion to Celsius (SpecTransform)
\* ========================================================================
CelsiusColumns ==
    {"temperature_c", "thermal_sensation_c", "temp_min_c", "temp_max_c"}

\* A document transform accepts that has the four Kelvin readings.
ValidObservation(data) ==
    /\ ~ Defective(data)
    /\ {"sys.sunrise", "sys.sunset", "timezone"} \subseteq DOMAIN data

\* C11: for every valid document the row transform returns has the four
\* Celsius columns, each equal to its Kelvin reading minus 273.15, and apart
\* from these four columns the row is the renamed frame the conversion step
\* started from (no other column changed or added).
C11_CelsiusIsKelvinMinusOffset ==
    \A i \in Invocations :
        (tin[i] # <<>> /\ ValidObservation(tin[i][1])) =>
            /\ tout[i] # <<>>
            /\ LET data == tin[i][1]
                   row == tout[i][1]
               IN  /\ CelsiusColumns \subseteq DOMAIN row
                   /\ row["temperature_c"] = data["main.temp"] - KelvinOffset
                   /\ row["thermal_sensation_c"] = data["main.feels_like"] - KelvinOffset
                   /\ row["temp_min_c"] = data["main.temp_min"] - KelvinOffset
                   /\ row["temp_max_c"] = data["main.temp_max"] - KelvinOffset
                   /\ row["temperature_k"] = data["main.temp"]
                   /\ row["thermal_sensation_k"] = data["main.feels_like"]
                   /\ row["temp_min_k"] = data["main.temp_min"]
                   /\ row["temp_max_k"] = data["main.temp_max"]
                   /\ Without(row, CelsiusColumns)
                          = RenameKept(WithDerivedColumns(data, row["collection_timestamp"]))

\* transform has returned a row with a reading below and one above 0 C.
C11_Witness ==
    /\ tin[1] # <<>>
    /\ ValidObservation(tin[1][1])
    /\ tout[1] # <<>>
    /\ tout[1][1]["temperature_c"] = -3000
    /\ tout[1][1]["thermal_sensation_c"] = -1
    /\ tout[1][1]["temp_max_c"] = 3750

\* ========================================================================
\* Claims about the refresh interval of the read path (SpecSessions)
\* ========================================================================
\* C12: two queries that load_data runs against storage for the same city
\* filter and time range are at least 120 seconds apart, whichever browser
\* sessions' script runs make them.
C12_AtMostOneQueryPerRefreshInterval ==
    [][ (/\ queried # <<>>
         /\ queried' # queried
         /\ queried'[1].args = queried[1].args)
            => queried'[1].at - queried[1].at >= RefreshSeconds
      ]_vars

====
